---------------------------- MODULE Spec2Model ----------------------------
(***************************************************************************)
(* Model of visbrain's source projection (SourcesBase._modulation,        *)
(* _repartition, _MaskedEucl, the mask queries) and of BrainVisual: its    *)
(* overlay store                                                           *)
(* (set_data, add_overlay, update_colormap, minmax, sulcus), the colour    *)
(* its vertex shader gives a vertex, and its mesh and GL properties        *)
(* (hemisphere, translucent, alpha).                                       *)
(*                                                                         *)
(* Geometry: points lie on the x axis (y = z = 0) at integer abscissae, so *)
(* every euclidian distance is an integer and every weight 1 - d/dmax is a *)
(* rational.  float32 values are modelled by exact rationals; the float    *)
(* NaN produced by 0 * inf is a value of its own.                          *)
(***************************************************************************)
EXTENDS Integers, Sequences, FiniteSets, TLC

(***************************************************************************)
(* Bounds of the model.                                                    *)
(***************************************************************************)
NFaces == 2
MaxRadius == 2

Coords == {-1, 0, 1}
DataVals == {1, 2}
SrcIdx == {1, 2}

Faces == 1..NFaces
Corners == 0..2
VertIdx == 1..4
Points == {<<x, 0, 0>> : x \in Coords}

(***************************************************************************)
(* Numbers.  A float is [nan, n, d]: NaN, or the rational n / d (d > 0,    *)
(* in lowest terms).                                                       *)
(***************************************************************************)
Abs(i) == IF i < 0 THEN -i ELSE i

RECURSIVE Gcd(_, _)
Gcd(a, b) == IF b = 0 THEN a ELSE Gcd(b, a % b)

Rat(n, d) ==
    LET g == Gcd(Abs(n), Abs(d))
        s == IF d < 0 THEN -1 ELSE 1
    IN  [nan |-> FALSE, n |-> (s * n) \div g, d |-> (s * d) \div g]

NaN == [nan |-> TRUE, n |-> 0, d |-> 1]
Zero == Rat(0, 1)
FromInt(i) == Rat(i, 1)

RAdd(a, b) == IF a.nan \/ b.nan THEN NaN ELSE Rat(a.n * b.d + b.n * a.d, a.d * b.d)
RSub(a, b) == IF a.nan \/ b.nan THEN NaN ELSE Rat(a.n * b.d - b.n * a.d, a.d * b.d)
RMul(a, b) == IF a.nan \/ b.nan THEN NaN ELSE Rat(a.n * b.n, a.d * b.d)
\* Only used with a non-zero divisor.
RDiv(a, b) == IF a.nan \/ b.nan THEN NaN ELSE Rat(a.n * b.d, a.d * b.n)
RLess(a, b) == a.n * b.d < b.n * a.d

\* Sum of the floats fn[x], x in S.
RECURSIVE SumOver(_, _)
SumOver(S, fn) ==
    IF S = {} THEN Zero
    ELSE LET x == CHOOSE y \in S : TRUE
         IN  RAdd(fn[x], SumOver(S \ {x}, fn))

SetMaxInt(S) == CHOOSE m \in S : \A y \in S : y <= m
SetMinInt(S) == CHOOSE m \in S : \A y \in S : m <= y

\* x.min() / x.max() of a non-empty set of floats: NaN propagates.
RMin(S) == IF \E a \in S : a.nan THEN NaN
           ELSE CHOOSE m \in S : \A y \in S : ~RLess(y, m)
RMax(S) == IF \E a \in S : a.nan THEN NaN
           ELSE CHOOSE m \in S : \A y \in S : ~RLess(m, y)

(***************************************************************************)
(* The radius argument: a finite number or +infinity.                      *)
(***************************************************************************)
Fin(r) == [inf |-> FALSE, r |-> r]
Infinity == [inf |-> TRUE, r |-> 0]
Radii == {Fin(r) : r \in (-1)..MaxRadius} \cup {Infinity}

\* np.sign
Sign(x) == IF x < 0 THEN -1 ELSE IF x > 0 THEN 1 ELSE 0

\* cdist: euclidian distance of two points of the axis.
Cdist(p, q) ==
    LET d2 == (p[1] - q[1]) * (p[1] - q[1]) + (p[2] - q[2]) * (p[2] - q[2])
              + (p[3] - q[3]) * (p[3] - q[3])
    IN  CHOOSE d \in 0..d2 : d * d = d2

\* A variant with the radius test taken strict (eucl < radius).
UnderRadiusStrict(d, radius) == radius.inf \/ d < radius.r
\* eucl <= radius
UnderRadius(d, radius) == radius.inf \/ d <= radius.r

\* TLC evaluates a function constructor anew at each application; Table(t) is
\* the same function t, evaluated once.
Table(t) == t @@ <<>>

(***************************************************************************)
(* The mesh: a strip of NFaces triangles around the vertices VertIdx; face *)
(* f has the corners f, f+1, f+2 (counted around the strip).  FaceV is the *)
(* face-indexed vertex array v of shape (nv, 3, 3) the projections take:   *)
(* v[f, k] is corner k of face f.                                          *)
(***************************************************************************)
FaceV(vpos) ==
    Table([f \in Faces, k \in Corners |-> vpos[((f + k - 1) % Cardinality(VertIdx)) + 1]])

(***************************************************************************)
(* SourcesBase: projections.  A source set is (xyz_, data_, mask_), three  *)
(* functions over SrcIdx; mask_[s] is self.data.mask[s].                   *)
(***************************************************************************)
\* A variant computing on every source, masked or not.
UnmaskedAll(mask_) == SrcIdx
\* ~self.data.mask: the sources the projections compute on.
Unmasked(mask_) == {s \in SrcIdx : ~mask_[s]}

\* self.data.mask: the sources _MaskedEucl computes on.
MaskedSrc(mask_) == {s \in SrcIdx : mask_[s]}

\* A variant lifting the hemisphere filter for a corner on x = 0
\* instead of a source on x = 0.
UnderMaskCornerZero(xyz_, v, f, k, s, radius, contribute) ==
    LET vsign == Sign(v[f, k][1])
        xsign == Sign(xyz_[s][1])
    IN  UnderRadius(Cdist(v[f, k], xyz_[s]), radius)
        /\ (contribute \/ ~(vsign # xsign /\ vsign # 0))
\* mask[f, s] of slab k once the contribute filter has been applied.
UnderMask(xyz_, v, f, k, s, radius, contribute) ==
    LET vsign == Sign(v[f, k][1])
        xsign == Sign(xyz_[s][1])
        isign == vsign # xsign /\ xsign # 0
    IN  IF ~contribute /\ isign THEN FALSE
        ELSE UnderRadius(Cdist(v[f, k], xyz_[s]), radius)

\* The unmasked sources under the radius of corner k of face f.
Contrib(xyz_, mask_, v, f, k, radius, contribute) ==
    {s \in Unmasked(mask_) : UnderMask(xyz_, v, f, k, s, radius, contribute)}

\* mask, for the three slabs: the contributing sources of every face corner.
MaskTable(xyz_, mask_, v, radius, contribute) ==
    Table([f \in Faces, k \in Corners |->
              Contrib(xyz_, mask_, v, f, k, radius, contribute)])

\* nnz = np.nonzero(mask.sum(0)): the sources under the radius of some corner
\* of slab k.
Nnz(inc, k) == UNION {inc[f, k] : f \in Faces}

\* eucl.max() of slab k (act, the unmasked sources, is not empty).
EuclMax(xyz_, act, v, k) ==
    SetMaxInt({Cdist(v[f, k], xyz_[s]) : f \in Faces, s \in act})

\* 1 - eucl / eucl.max(); 0 * inf = NaN when every distance of the slab is 0.
Weight(d, emax) == IF emax = 0 THEN NaN ELSE Rat(emax - d, emax)

\* np.ma.dot(eucl, data, strict=False) at one corner: masked entries count 0.
MaDot(xyz_, data_, v, f, k, incfk, emax) ==
    LET term == [s \in incfk |->
                    RMul(Weight(Cdist(v[f, k], xyz_[s]), emax), FromInt(data_[s]))]
    IN  SumOver(incfk, term)

\* prop[prop == 0.] = 1.
PropOf(n) == IF n = 0 THEN 1 ELSE n

EmptyArr == Table([f \in Faces, k \in Corners |-> Zero])
EmptyMsk == Table([f \in Faces, k \in Corners |-> FALSE])
EmptyCnt == Table([f \in Faces, k \in Corners |-> 0])

\* The result of a call that raised: no array.
Raised(what) ==
    [status |-> what, val |-> EmptyArr, msk |-> EmptyMsk, cnt |-> EmptyCnt]

(***************************************************************************)
(* normalize(x, tomin, tomax) of visbrain.utils, applied in place to the   *)
(* valid entries of a masked array: their [min, max] is mapped linearly on *)
(* [tomin, tomax]; an array with no valid entry, or with min = max, is     *)
(* left as it is.                                                          *)
(***************************************************************************)
Normalize(x, msk, tomin, tomax) ==
    LET valid == {x[fk] : fk \in {g \in DOMAIN x : ~msk[g]}}
        xm == RMin(valid)
        xh == RMax(valid)
        scale == RDiv(RSub(tomax, tomin), RSub(xh, xm))
    IN  IF valid = {} THEN x
        ELSE IF xm.nan THEN [fk \in DOMAIN x |-> IF msk[fk] THEN x[fk] ELSE NaN]
        ELSE IF xm = xh THEN x
        ELSE [fk \in DOMAIN x |->
                 IF msk[fk] THEN x[fk]
                 ELSE RAdd(tomin, RMul(RSub(x[fk], xm), scale))]

\* np.divide(modulation, prop): the per-corner values before the rescaling.
Unscaled(xyz_, data_, act, v, inc) ==
    LET emax == Table([k \in Corners |-> EuclMax(xyz_, act, v, k)])
    IN  Table([f \in Faces, k \in Corners |->
                  RDiv(MaDot(xyz_, data_, v, f, k, inc[f, k], emax[k]),
                       FromInt(PropOf(Cardinality(inc[f, k]))))])

\* SourcesBase._modulation
Modulation(xyz_, data_, mask_, v, radius, contribute) ==
    LET act == Unmasked(mask_)
        inc == MaskTable(xyz_, mask_, v, radius, contribute)
        cnt == Table([f \in Faces, k \in Corners |-> Cardinality(inc[f, k])])
        msk == Table([f \in Faces, k \in Corners |-> cnt[f, k] = 0])
        used == UNION {Nnz(inc, k) : k \in Corners}
        lo == SetMinInt({data_[s] : s \in used})
        hi == SetMaxInt({data_[s] : s \in used})
    IN  IF act = {} THEN Raised("ValueError")           \* eucl.max() of an empty array
        ELSE IF \E k \in Corners : Nnz(inc, k) = {}
             THEN Raised("ValueError")                   \* data[nnz].min() of an empty array
        ELSE [status |-> "ok",
              val |-> Normalize(Unscaled(xyz_, data_, act, v, inc), msk,
                                FromInt(lo), FromInt(hi)),
              msk |-> msk,
              cnt |-> cnt]

\* A variant masking no entry.
SmMaskNever(sm) == FALSE
\* smmask = np.invert(sm.astype(bool))
SmMask(sm) == sm = 0

\* SourcesBase._repartition
Repartition(xyz_, mask_, v, radius, contribute) ==
    LET inc == MaskTable(xyz_, mask_, v, radius, contribute)
        cnt == Table([f \in Faces, k \in Corners |-> Cardinality(inc[f, k])])
    IN  [status |-> "ok",
         val |-> [f \in Faces, k \in Corners |-> FromInt(cnt[f, k])],
         msk |-> [f \in Faces, k \in Corners |-> SmMask(cnt[f, k])],
         cnt |-> cnt]

\* A variant querying the unmasked sources.
MaskedEuclActive(xyz_, mask_, v, radius) ==
    [f \in Faces, k \in Corners |->
        \E s \in Unmasked(mask_) : UnderRadius(Cdist(v[f, k], xyz_[s]), radius)]
\* SourcesBase._MaskedEucl: idx[f, k], the boolean dot product of fmask and ones.
MaskedEucl(xyz_, mask_, v, radius) ==
    [f \in Faces, k \in Corners |->
        \E s \in MaskedSrc(mask_) : UnderRadius(Cdist(v[f, k], xyz_[s]), radius)]

(***************************************************************************)
(* BrainVisual: the overlay store.  A visual bv has the fields             *)
(*   xrange       _xrange, a sequence of columns (slot j is column j + 1), *)
(*                each a float per vertex                                  *)
(*   alphas       _alphas, likewise                                        *)
(*   text2d_data  _text2d_data, a sequence of LUT rows                     *)
(*   data_lim     _data_lim, a list of (min, max)                          *)
(*   n_overlay    _n_overlay                                               *)
(*   bgd_data     _bgd_data, in tenths (0, 5: mask, 9 and 10: sulcus)      *)
(* to_overlay = None is written -1 (negative slots are not modelled); a    *)
(* vertices argument is the set of the selected vertices (None: all); a    *)
(* mask_data argument is the set of the vertices it selects (None: none).  *)
(***************************************************************************)
MaxCalls == 3

Verts == {1, 2}
Cmaps == {"viridis", "plasma"}
None == -1
SlotArgs == {None} \cup 0..MaxCalls

One == Rat(1, 1)
ZeroCol == [i \in Verts |-> Zero]
ZeroRow == [lo |-> 0, hi |-> 0, cmap |-> "zeros"]

\* Colormap(cmap).to_rgba(np.linspace(lim[0], lim[1], LUT_LEN)): the LUT row of
\* a range and a colormap.
Lut(lim, cmap) == [lo |-> lim[1], hi |-> lim[2], cmap |-> cmap]

\* BrainVisual.__init__ and set_data: two zero slots, no overlay, no range.
BrainVisualInit(sulcus) ==
    [xrange |-> <<ZeroCol, ZeroCol>>,
     alphas |-> <<ZeroCol, ZeroCol>>,
     text2d_data |-> <<ZeroRow, ZeroRow>>,
     data_lim |-> <<>>,
     n_overlay |-> 0,
     bgd_data |-> [i \in Verts |-> IF i \in sulcus THEN 9 ELSE 0]]

\* A variant growing only for a slot past the next one.
NeedReshapeBeyond(to, ncols) == to > ncols
\* need_reshape = to_overlay >= self._xrange.shape[1]
NeedReshape(to, ncols) == to >= ncols

\* self._bgd_data[mask_data] = .5
MaskBgd(bgd, mask_data) == [i \in Verts |-> IF i \in mask_data THEN 5 ELSE bgd[i]]

\* A variant always writing the next slot.
SlotOfNext(bv, to_overlay) == bv.n_overlay
\* to_overlay = self._n_overlay if to_overlay is None else to_overlay
SlotOf(bv, to_overlay) == IF to_overlay = None THEN bv.n_overlay ELSE to_overlay

\* BrainVisual.add_overlay(data, vertices, to_overlay, mask_data, cmap): the
\* visual after the call and how the call ended.  An IndexError leaves what
\* was assigned before it.
AddOverlay(bv, a) ==
    LET to == SlotOf(bv, a.to_overlay)
        vals == {a.data[i] : i \in a.vertices}
        data_lim == <<SetMinInt(vals), SetMaxInt(vals)>>
        lims == IF Len(bv.data_lim) < to + 1
                THEN Append(bv.data_lim, data_lim)
                ELSE [bv.data_lim EXCEPT ![to + 1] = data_lim]
        need_reshape == NeedReshape(to, Len(bv.xrange))
        grown == IF need_reshape
                 THEN [bv EXCEPT !.data_lim = lims,
                                 !.xrange = Append(@, ZeroCol),
                                 !.alphas = Append(@, ZeroCol),
                                 !.text2d_data = Append(@, ZeroRow)]
                 ELSE [bv EXCEPT !.data_lim = lims]
        norm == Normalize([i \in a.vertices |-> FromInt(a.data[i])],
                          [i \in a.vertices |-> FALSE], Zero, One)
    IN  IF to + 1 > Len(grown.xrange)
        THEN [bv |-> grown, status |-> "IndexError"]
        ELSE [bv |-> [grown EXCEPT
                        !.xrange[to + 1] =
                            [i \in Verts |-> IF i \in a.vertices THEN norm[i] ELSE @[i]],
                        !.alphas[to + 1] =
                            [i \in Verts |-> IF i \in a.vertices THEN One ELSE @[i]],
                        !.text2d_data[to + 1] = Lut(data_lim, a.cmap),
                        !.bgd_data = MaskBgd(@, a.mask_data),
                        !.n_overlay = to + 1],
              status |-> "ok"]

\* A variant rebuilding the LUT row of every slot that has a recorded range.
UpdateColormapAll(bv, to_overlay, cmap) ==
    [bv |-> [bv EXCEPT !.text2d_data =
                [j \in 1..Len(@) |-> IF j <= Len(bv.data_lim)
                                      THEN Lut(bv.data_lim[j], cmap) ELSE @[j]]],
     status |-> "ok"]
\* BrainVisual.update_colormap(to_overlay, cmap)
UpdateColormap(bv, to_overlay, cmap) ==
    IF bv.n_overlay >= 1
    THEN LET overlay == IF to_overlay = None THEN bv.n_overlay - 1 ELSE to_overlay
         IN  IF overlay + 1 > Len(bv.data_lim) \/ overlay + 1 > Len(bv.text2d_data)
             THEN [bv |-> bv, status |-> "IndexError"]
             ELSE [bv |-> [bv EXCEPT !.text2d_data[overlay + 1] =
                                        Lut(bv.data_lim[overlay + 1], cmap)],
                   status |-> "ok"]
    ELSE [bv |-> bv, status |-> "ok"]

\* isinstance(value.dtype, bool): a numpy dtype is no instance of bool.
DtypeIsBool(value) == FALSE

\* The setter of BrainVisual.sulcus, value an array selecting the vertices in
\* the set value.
SetSulcus(bv, value) ==
    IF ~DtypeIsBool(value)
    THEN [bv |-> bv, status |-> "AssertionError"]
    ELSE [bv |-> [bv EXCEPT !.bgd_data = [i \in Verts |-> IF i \in value THEN 10 ELSE @[i]]],
          status |-> "ok"]

\* BrainVisual.minmax: self._data_lim[self._n_overlay - 1], where index -1 is
\* the last element of the list.
Minmax(bv) ==
    LET at == IF bv.n_overlay = 0 THEN Len(bv.data_lim) ELSE bv.n_overlay
    IN  IF at < 1 \/ at > Len(bv.data_lim)
        THEN [status |-> "IndexError", val |-> <<0, 0>>]
        ELSE [status |-> "ok", val |-> bv.data_lim[at]]

(***************************************************************************)
(* VERT_SHADER: the colour of a vertex.  A texture is sampled at the        *)
(* nearest texel, the coordinate clamped to the edge; a colour of the LUT   *)
(* is kept as the LUT row and the coordinate it was read at, and the sum of *)
(* the loop as the bag of the colours it added.                             *)
(***************************************************************************)
\* _build_bgd_texture: the rows of the background texture.
BgdRows == <<"white", "mask", "sulcus">>

\* texture1D($u_bgd_text, $a_bgd_data), a_bgd_data in tenths.
BgColor(t) ==
    LET texel == (t * Len(BgdRows)) \div 10
    IN  BgdRows[(IF texel > Len(BgdRows) - 1 THEN Len(BgdRows) - 1 ELSE texel) + 1]

\* float off = float($u_n_overlays > 1) * 0.999999, in millionths.
Off(n) == IF n > 1 THEN 999999 ELSE 0

\* The row of $u_over_text that (i + off) / $u_n_overlays selects.
TexRow(i, n, rows) ==
    LET texel == ((i * 1000000 + Off(n)) * rows) \div (1000000 * n)
    IN  IF texel > rows - 1 THEN rows - 1 ELSE texel

\* The bag of the colours sample[i], i in the set slots.
ColorBag(slots, sample) ==
    [c \in {sample[i] : i \in slots} |-> Cardinality({i \in slots : sample[i] = c})]

\* v_color of vertex v: mix(bg_color, overlay_color, overlay_color.a), with
\* overlay_color the sum of $u_alphas[i] * ux over i < $u_n_overlays divided by
\* max(u_div, 1).  A zero LUT row is transparent and adds nothing; when every
\* colour added is opaque the mix keeps nothing of the background.
VertColor(bv, v) ==
    LET n == bv.n_overlay
        rows == Len(bv.text2d_data)
        ux == [i \in 0..(n - 1) |->
                 [row |-> bv.text2d_data[TexRow(i, n, rows) + 1], at |-> bv.xrange[i + 1][v]]]
        cover == {i \in 0..(n - 1) : bv.alphas[i + 1][v] = One}
        opaque == {i \in cover : ux[i].row # ZeroRow}
        u_div == IF cover = {} THEN 1 ELSE Cardinality(cover)
    IN  [bg |-> IF Cardinality(opaque) = u_div THEN "none" ELSE BgColor(bv.bgd_data[v]),
         over |-> ColorBag(opaque, ux),
         div |-> IF opaque = {} THEN 1 ELSE u_div]

\* The arguments add_overlay is called with: a selection of vertices, one
\* value per selected vertex and a mask, written to any slot.
OvlInputs ==
    {[vertices |-> {1}, data |-> [i \in {1} |-> 2], mask_data |-> {}],
     [vertices |-> Verts, data |-> [i \in Verts |-> i], mask_data |-> {1}],
     [vertices |-> Verts, data |-> [i \in Verts |-> 1], mask_data |-> {}]}

AddArgs ==
    {[vertices |-> b.vertices, data |-> b.data, to_overlay |-> j,
      mask_data |-> b.mask_data, cmap |-> "viridis"] :
        b \in OvlInputs, j \in SlotArgs}

(***************************************************************************)
(* BrainVisual: the mesh and the GL state.  A visual vis has the fields     *)
(*   faces         _faces, a triple of vertices per face                    *)
(*   lr_index      _lr_index, TRUE for the vertices of the left hemisphere  *)
(*   hemisphere    _hemisphere                                              *)
(*   index_buffer  the faces whose rows _index_buffer holds                 *)
(*   translucent   _translucent                                             *)
(*   depth_test    the depth_test entry of the GL state                     *)
(*   alpha         _alpha, in hundredths                                    *)
(***************************************************************************)
MeshVerts == 1..3
Triples == {<<1, 2, 3>>, <<3, 1, 2>>}
Hemispheres == {"left", "both", "right"}
AlphaArgs == {5, 50, 100}

\* A variant taking for the right hemisphere the faces with some corner in it.
HemisphereIndexAnyCorner(faces, lr_index, value) ==
    IF value = "both" THEN DOMAIN faces
    ELSE IF value = "left" THEN {f \in DOMAIN faces : lr_index[faces[f][1]]}
    ELSE {f \in DOMAIN faces : \E k \in 1..3 : ~lr_index[faces[f][k]]}
\* The rows of self._faces the setter of hemisphere selects: by the label of
\* the first vertex of the face.
HemisphereIndex(faces, lr_index, value) ==
    IF value = "both" THEN DOMAIN faces
    ELSE IF value = "left" THEN {f \in DOMAIN faces : lr_index[faces[f][1]]}
    ELSE {f \in DOMAIN faces : ~lr_index[faces[f][1]]}

\* BrainVisual.__init__ and set_data: translucent, the GL state set with
\* depth_test=True.
VisualInit(faces, lr_index, hemisphere, alpha) ==
    [faces |-> faces,
     lr_index |-> lr_index,
     hemisphere |-> hemisphere,
     index_buffer |-> HemisphereIndex(faces, lr_index, hemisphere),
     translucent |-> TRUE,
     depth_test |-> TRUE,
     alpha |-> alpha]

\* The setter of BrainVisual.hemisphere.
SetHemisphere(vis, value) ==
    IF value \notin Hemispheres
    THEN [vis |-> vis, status |-> "AssertionError"]
    ELSE [vis |-> [vis EXCEPT !.index_buffer = HemisphereIndex(vis.faces, vis.lr_index, value),
                              !.hemisphere = value],
          status |-> "ok"]

\* The setter of BrainVisual.alpha: value = min(value, .1) if self._translucent else 1.
SetAlpha(vis, value) ==
    [vis |-> [vis EXCEPT !.alpha = IF vis.translucent
                                   THEN (IF value < 10 THEN value ELSE 10)
                                   ELSE 100],
     status |-> "ok"]

\* The setter of BrainVisual.translucent: the GL state, _translucent, then the
\* setter of alpha.
SetTranslucent(vis, value) ==
    LET gl == [vis EXCEPT !.depth_test = ~value, !.translucent = value]
    IN  SetAlpha(gl, IF value THEN 10 ELSE 100)

(***************************************************************************)
(* SourcesBase: the mask queries.  smask_ is self.smask, the mask given at  *)
(* construction; mask_ is self.data.mask, which prepare2plot starts as a    *)
(* copy of it.                                                              *)
(***************************************************************************)
\* SourcesBase.__len__: the number of non-masked sources.
SourcesLen(mask_) == Cardinality({s \in DOMAIN mask_ : ~mask_[s]})

\* SourcesBase.__bool__: any(self.smask).
SourcesBool(smask_) == \E s \in DOMAIN smask_ : smask_[s]

\* SourcesBase._reset_mask: self.data.mask = reset_to.
ResetMask(mask_, reset_to) == [s \in DOMAIN mask_ |-> reset_to]

(***************************************************************************)
(* State.                                                                  *)
(*   xyz, data, mask : the source set (self.xyz, self.data.data,           *)
(*                     self.data.mask)                                     *)
(*   smask           : the mask the source set was built with (self.smask) *)
(*   vpos            : the positions of the mesh vertices                  *)
(*   res             : the last projection call: its name, its arguments   *)
(*                     and what it returned (out for _modulation and       *)
(*                     _repartition, idx for _MaskedEucl)                  *)
(*   bv              : the BrainVisual                                     *)
(*   last            : the last call on bv: its name, its arguments, how   *)
(*                     it ended, and whether it repeated the successful    *)
(*                     add_overlay call before it                          *)
(*   ncalls          : the number of calls made on bv                      *)
(*   vis             : the mesh and the GL state of the BrainVisual        *)
(*   vlast           : the last assignment to a property of vis: its name, *)
(*                     the value assigned and how it ended                 *)
(***************************************************************************)
VARIABLES xyz, data, mask, smask, vpos, res, bv, last, ncalls, vis, vlast

projVars == <<xyz, data, mask, smask, vpos, res>>
ovlVars == <<bv, last, ncalls>>
visVars == <<vis, vlast>>
vars == <<xyz, data, mask, smask, vpos, res, bv, last, ncalls, vis, vlast>>

NoCall == [op |-> "none", radius |-> Infinity, contribute |-> FALSE,
           out |-> Raised("none"), idx |-> EmptyMsk]

NoArgs == [vertices |-> {}, data |-> [i \in {} |-> 0], to_overlay |-> None,
           mask_data |-> {}, cmap |-> "viridis"]

NoOvlCall == [op |-> "none", args |-> NoArgs, status |-> "ok", repeated |-> FALSE]

NoVisCall == [op |-> "none", value |-> "none", status |-> "ok"]
DefaultVisual ==
    VisualInit([f \in Faces |-> <<1, 2, 3>>], [i \in MeshVerts |-> TRUE], "both", 100)

(***************************************************************************)
(* The projections.  A projection reads the source set and its arguments   *)
(* and writes nothing: each behaviour draws a source set and a mesh and    *)
(* makes one call.                                                         *)
(***************************************************************************)
InitProj ==
    /\ xyz \in [SrcIdx -> Points]
    /\ data = [s \in SrcIdx |-> s]
    /\ mask \in [SrcIdx -> BOOLEAN]
    /\ smask = mask
    /\ vpos \in [VertIdx -> Points]
    /\ res = NoCall
    /\ bv = BrainVisualInit({})
    /\ last = NoOvlCall
    /\ ncalls = 0
    /\ vis = DefaultVisual
    /\ vlast = NoVisCall

CallModulation ==
    /\ res.op = "none"
    /\ \E radius \in Radii, contribute \in BOOLEAN :
          res' = [op |-> "modulation", radius |-> radius, contribute |-> contribute,
                  out |-> Modulation(xyz, data, mask, FaceV(vpos), radius, contribute),
                  idx |-> EmptyMsk]
    /\ UNCHANGED <<xyz, data, mask, smask, vpos>>
    /\ UNCHANGED ovlVars
    /\ UNCHANGED visVars

CallRepartition ==
    /\ res.op = "none"
    /\ \E radius \in Radii, contribute \in BOOLEAN :
          res' = [op |-> "repartition", radius |-> radius, contribute |-> contribute,
                  out |-> Repartition(xyz, mask, FaceV(vpos), radius, contribute),
                  idx |-> EmptyMsk]
    /\ UNCHANGED <<xyz, data, mask, smask, vpos>>
    /\ UNCHANGED ovlVars
    /\ UNCHANGED visVars

CallMaskedEucl ==
    /\ res.op = "none"
    /\ \E radius \in Radii :
          res' = [op |-> "maskedeucl", radius |-> radius, contribute |-> FALSE,
                  out |-> Raised("none"),
                  idx |-> MaskedEucl(xyz, mask, FaceV(vpos), radius)]
    /\ UNCHANGED <<xyz, data, mask, smask, vpos>>
    /\ UNCHANGED ovlVars
    /\ UNCHANGED visVars

NextProj == CallModulation \/ CallRepartition \/ CallMaskedEucl

SpecProj == InitProj /\ [][NextProj]_vars

(***************************************************************************)
(* The overlay store: a BrainVisual and up to MaxCalls calls on it.        *)
(***************************************************************************)
InitOverlay ==
    /\ xyz = [s \in SrcIdx |-> <<0, 0, 0>>]
    /\ data = [s \in SrcIdx |-> s]
    /\ mask = [s \in SrcIdx |-> FALSE]
    /\ smask = mask
    /\ vpos = [i \in VertIdx |-> <<0, 0, 0>>]
    /\ res = NoCall
    /\ bv \in {BrainVisualInit(sulcus) : sulcus \in {{}, Verts}}
    /\ last = NoOvlCall
    /\ ncalls = 0
    /\ vis = DefaultVisual
    /\ vlast = NoVisCall

CallAddOverlay ==
    /\ ncalls < MaxCalls
    /\ \E a \in AddArgs :
          LET r == AddOverlay(bv, a)
          IN  /\ bv' = r.bv
              /\ last' = [op |-> "add_overlay", args |-> a, status |-> r.status,
                          repeated |-> /\ last.op = "add_overlay"
                                       /\ last.status = "ok"
                                       /\ last.args = a]
    /\ ncalls' = ncalls + 1
    /\ UNCHANGED projVars
    /\ UNCHANGED visVars

CallUpdateColormap ==
    /\ ncalls < MaxCalls
    /\ \E j \in SlotArgs, c \in Cmaps :
          LET r == UpdateColormap(bv, j, c)
          IN  /\ bv' = r.bv
              /\ last' = [op |-> "update_colormap",
                          args |-> [NoArgs EXCEPT !.to_overlay = j, !.cmap = c],
                          status |-> r.status, repeated |-> FALSE]
    /\ ncalls' = ncalls + 1
    /\ UNCHANGED projVars
    /\ UNCHANGED visVars

CallSetSulcus ==
    /\ ncalls < MaxCalls
    /\ \E value \in {{1}, Verts} :
          LET r == SetSulcus(bv, value)
          IN  /\ bv' = r.bv
              /\ last' = [op |-> "sulcus", args |-> [NoArgs EXCEPT !.vertices = value],
                          status |-> r.status, repeated |-> FALSE]
    /\ ncalls' = ncalls + 1
    /\ UNCHANGED projVars
    /\ UNCHANGED visVars

NextOverlay == CallAddOverlay \/ CallUpdateColormap \/ CallSetSulcus

SpecOverlay == InitOverlay /\ [][NextOverlay]_vars

(***************************************************************************)
(* The mesh and the GL state: a BrainVisual built on any mesh, labelling    *)
(* and hemisphere, and assignments to its properties.                       *)
(***************************************************************************)
InitVisual ==
    /\ xyz = [s \in SrcIdx |-> <<0, 0, 0>>]
    /\ data = [s \in SrcIdx |-> s]
    /\ mask = [s \in SrcIdx |-> FALSE]
    /\ smask = mask
    /\ vpos = [i \in VertIdx |-> <<0, 0, 0>>]
    /\ res = NoCall
    /\ bv = BrainVisualInit({})
    /\ last = NoOvlCall
    /\ ncalls = 0
    /\ \E faces \in [Faces -> Triples], lr_index \in [MeshVerts -> BOOLEAN],
          hemisphere \in Hemispheres :
          vis = VisualInit(faces, lr_index, hemisphere, 100)
    /\ vlast = NoVisCall

AssignHemisphere ==
    /\ \E value \in Hemispheres \cup {"top"} :
          LET r == SetHemisphere(vis, value)
          IN  /\ vis' = r.vis
              /\ vlast' = [op |-> "hemisphere", value |-> value, status |-> r.status]
    /\ UNCHANGED projVars
    /\ UNCHANGED ovlVars

AssignTranslucent ==
    /\ \E value \in BOOLEAN :
          LET r == SetTranslucent(vis, value)
          IN  /\ vis' = r.vis
              /\ vlast' = [op |-> "translucent",
                           value |-> IF value THEN "True" ELSE "False",
                           status |-> r.status]
    /\ UNCHANGED projVars
    /\ UNCHANGED ovlVars

AssignAlpha ==
    /\ \E value \in AlphaArgs :
          LET r == SetAlpha(vis, value)
          IN  /\ vis' = r.vis
              /\ vlast' = [op |-> "alpha",
                           value |-> IF value < 10 THEN "below .1" ELSE "from .1",
                           status |-> r.status]
    /\ UNCHANGED projVars
    /\ UNCHANGED ovlVars

NextVisual == AssignHemisphere \/ AssignTranslucent \/ AssignAlpha

SpecVisual == InitVisual /\ [][NextVisual]_vars

(***************************************************************************)
(* The mask of the source set: a SourcesBase built on any sources and mask, *)
(* and resets of its mask.                                                  *)
(***************************************************************************)
InitMask ==
    /\ xyz \in [SrcIdx -> Points]
    /\ data \in [SrcIdx -> DataVals]
    /\ smask \in [SrcIdx -> BOOLEAN]
    /\ mask = smask
    /\ vpos = [i \in VertIdx |-> <<0, 0, 0>>]
    /\ res = NoCall
    /\ bv = BrainVisualInit({})
    /\ last = NoOvlCall
    /\ ncalls = 0
    /\ vis = DefaultVisual
    /\ vlast = NoVisCall

CallResetMask ==
    /\ \E reset_to \in BOOLEAN : mask' = ResetMask(mask, reset_to)
    /\ UNCHANGED <<xyz, data, smask, vpos, res>>
    /\ UNCHANGED ovlVars
    /\ UNCHANGED visVars

NextMask == CallResetMask

SpecMask == InitMask /\ [][NextMask]_vars

(***************************************************************************)
(* Vocabulary of the claims about the projections, over the last call.     *)
(***************************************************************************)
Corner(f, k) == FaceV(vpos)[f, k]
Dist(f, k, s) == Cdist(Corner(f, k), xyz[s])
WithinRadius(f, k, s) == res.radius.inf \/ Dist(f, k, s) <= res.radius.r
Active == {s \in SrcIdx : ~mask[s]}
Projected == res.op \in {"modulation", "repartition"}
Returned == Projected /\ res.out.status = "ok"

\* Inclusion with a source on the plane x = 0 counted in both hemispheres.
InclBySourceSign(f, k) ==
    {s \in Active :
        /\ WithinRadius(f, k, s)
        /\ \/ res.contribute
           \/ Sign(xyz[s][1]) = Sign(Corner(f, k)[1])
           \/ Sign(xyz[s][1]) = 0}

\* C1 (as claimed): in _modulation and _repartition an active source is
\* included at a face corner iff it is within the radius and contribute is
\* true, or its x-sign equals the corner's, or the corner's x-sign is zero.
C1_InclusionCornerNeutral ==
    Returned => \A f \in Faces, k \in Corners :
        res.out.cnt[f, k] =
            Cardinality({s \in Active :
                            /\ WithinRadius(f, k, s)
                            /\ \/ res.contribute
                               \/ Sign(xyz[s][1]) = Sign(Corner(f, k)[1])
                               \/ Sign(Corner(f, k)[1]) = 0})

\* C1 (amended): an active source is included at a face corner iff it is
\* within the radius and contribute is true, or its x-sign equals the
\* corner's, or the SOURCE's x-sign is zero; an entry is masked iff no source
\* is included.
C1_InclusionSourceNeutral ==
    Returned => \A f \in Faces, k \in Corners :
        /\ res.out.cnt[f, k] = Cardinality(InclBySourceSign(f, k))
        /\ res.out.msk[f, k] <=> (InclBySourceSign(f, k) = {})

\* A corner on x = 0 left uncovered by an in-radius source of a hemisphere,
\* and a source on x = 0 counted at a corner of a hemisphere.
C1_Witness ==
    /\ Returned /\ ~res.contribute
    /\ \E f \in Faces, k \in Corners, s \in Active :
          /\ Corner(f, k)[1] = 0 /\ xyz[s][1] # 0 /\ WithinRadius(f, k, s)
          /\ s \notin InclBySourceSign(f, k)
    /\ \E f \in Faces, k \in Corners, s \in Active :
          /\ Corner(f, k)[1] # 0 /\ xyz[s][1] = 0 /\ WithinRadius(f, k, s)
          /\ res.out.cnt[f, k] >= 1

C3_NoCoverageNoOp ==
    (/\ res.op = "modulation"
     /\ Active # {}
     /\ \A f \in Faces, k \in Corners : InclBySourceSign(f, k) = {})
    => /\ res.out.status = "ok"
       /\ res.out.val = Unscaled(xyz, data, Active, FaceV(vpos),
                                  [f \in Faces, k \in Corners |-> {}])

\* C4 (as claimed): with no active source both projections raise.
C4_EmptyInputRaises ==
    (Projected /\ Active = {}) => res.out.status # "ok"

\* C5 (as claimed): with radius <= 0 both projections raise.
C5_BadRadiusRaises ==
    (Projected /\ ~res.radius.inf /\ res.radius.r <= 0) => res.out.status # "ok"

\* The current source set with every masked source moved to p and given the
\* data d.  Two source sets that agree on the mask and on the non-masked sources
\* have the same image, for every p and d.
MaskedMovedXyz(p) == [s \in SrcIdx |-> IF mask[s] THEN p ELSE xyz[s]]
MaskedMovedData(d) == [s \in SrcIdx |-> IF mask[s] THEN d ELSE data[s]]

\* C6: the coordinates and data of the masked sources do not influence
\* _modulation and _repartition: the result is the one of the source set whose
\* masked sources are moved anywhere and given any data.
C6_MaskedSourcesIgnored ==
    (Projected /\ Active # SrcIdx) => \A p \in Points, d \in DataVals :
        /\ res.op = "modulation" =>
              res.out = Modulation(MaskedMovedXyz(p), MaskedMovedData(d), mask,
                                   FaceV(vpos), res.radius, res.contribute)
        /\ res.op = "repartition" =>
              res.out = Repartition(MaskedMovedXyz(p), mask,
                                    FaceV(vpos), res.radius, res.contribute)

\* A returned modulation with a masked source that lies under the radius of a
\* corner of its own hemisphere.
C6_Witness ==
    /\ res.op = "modulation" /\ res.out.status = "ok"
    /\ \E f \in Faces, k \in Corners, s \in SrcIdx :
          /\ mask[s] /\ WithinRadius(f, k, s)
          /\ Sign(xyz[s][1]) = Sign(Corner(f, k)[1])

\* C7: _MaskedEucl is true at a corner iff a masked source lies within the
\* radius of it, whatever the hemispheres and the non-masked sources.
C7_CoverageQuery ==
    res.op = "maskedeucl" => \A f \in Faces, k \in Corners :
        res.idx[f, k] <=> \E s \in SrcIdx : mask[s] /\ WithinRadius(f, k, s)

\* A corner covered by a masked source of the other hemisphere, and a corner
\* that only a non-masked source is near.
C7_Witness ==
    /\ res.op = "maskedeucl"
    /\ \E f \in Faces, k \in Corners, s \in SrcIdx :
          /\ mask[s] /\ WithinRadius(f, k, s) /\ res.idx[f, k]
          /\ Sign(xyz[s][1]) # Sign(Corner(f, k)[1])
    /\ \E f \in Faces, k \in Corners, s \in Active :
          WithinRadius(f, k, s) /\ ~res.idx[f, k]

\* The radius of the last call is finite and at least every distance between
\* an active source and a face corner.
Saturated ==
    /\ ~res.radius.inf
    /\ \A f \in Faces, k \in Corners, s \in Active : Dist(f, k, s) <= res.radius.r

SameAsUnbounded ==
    /\ res.op = "modulation" =>
         res.out = Modulation(xyz, data, mask, FaceV(vpos), Infinity, TRUE)
    /\ res.op = "repartition" =>
         res.out = Repartition(xyz, mask, FaceV(vpos), Infinity, TRUE)

\* C8 (as claimed): with a saturated radius the results are those of
\* contribute = true and an unbounded radius.
C8_Saturation == (Projected /\ Saturated) => SameAsUnbounded

\* C8 (amended): with contribute = true and a saturated radius the results
\* are those of contribute = true and an unbounded radius.
C8_SaturationContribute ==
    (Projected /\ Saturated /\ res.contribute) => SameAsUnbounded

\* The radius equals the largest distance, with an active source in each
\* hemisphere.
C8_Witness ==
    /\ res.op = "modulation" /\ res.out.status = "ok"
    /\ Saturated /\ res.contribute
    /\ \E f \in Faces, k \in Corners, s \in Active : Dist(f, k, s) = res.radius.r
    /\ \E s, t \in Active : xyz[s][1] < 0 /\ xyz[t][1] > 0

(***************************************************************************)
(* Vocabulary of the claims about the overlay store.                       *)
(***************************************************************************)
SlotCount == Len(bv.xrange)
SlotTables == <<bv.xrange, bv.alphas, bv.text2d_data>>
Added == last.op = "add_overlay"
\* A step that is an add_overlay call repeating, argument for argument, the
\* add_overlay call that returned just before it.
RepeatedAdd == last'.op = "add_overlay" /\ last'.repeated
\* The slot the add_overlay call of this step targets.
TargetSlot ==
    IF last'.args.to_overlay = None THEN bv.n_overlay ELSE last'.args.to_overlay

SlotCountsAgree ==
    /\ Len(bv.alphas) = SlotCount
    /\ Len(bv.text2d_data) = SlotCount

GrowthStep ==
    /\ SlotCount' \in {SlotCount, SlotCount + 1}
    /\ SlotCount' = SlotCount + 1 <=> (last'.op = "add_overlay" /\ TargetSlot >= SlotCount)
    /\ SlotCount' = SlotCount + 1 =>
          /\ \A j \in 1..SlotCount :
                /\ bv'.xrange[j] = bv.xrange[j]
                /\ bv'.alphas[j] = bv.alphas[j]
                /\ bv'.text2d_data[j] = bv.text2d_data[j]
          /\ \A i \in Verts \ last'.args.vertices :
                /\ bv'.xrange[SlotCount'][i] = Zero
                /\ bv'.alphas[SlotCount'][i] = Zero
          /\ last'.status # "ok" =>
                /\ bv'.xrange[SlotCount'] = ZeroCol
                /\ bv'.alphas[SlotCount'] = ZeroCol
                /\ bv'.text2d_data[SlotCount'] = ZeroRow

\* C10: an add_overlay call whose slot is beyond the allocated slots appends
\* exactly one zero column to the coordinate table and to the alpha table and
\* one zero LUT row (the call then writes its own slot, if that is the new
\* one); over add_overlay and update_colormap calls the number of slots never
\* decreases, grows by at most one per call, and is the same in the three
\* tables.
C10_SlotGrowth == []SlotCountsAgree /\ [][GrowthStep]_vars

C10_Witness ==
    /\ Added /\ last.status = "ok" /\ last.args.to_overlay = None
    /\ last.args.vertices = {1}
    /\ SlotCount = 4 /\ bv.n_overlay = 4
    /\ SlotCountsAgree
    /\ bv.alphas[4][2] = Zero /\ bv.alphas[4][1] = One

\* The slot a returned add_overlay call wrote: it left _n_overlay one past it.
WrittenSlot == bv.n_overlay - 1
AddedOk == Added /\ last.status = "ok"
\* (data.min(), data.max()) of the values of the last call.
LastLim ==
    LET vals == {last.args.data[i] : i \in last.args.vertices}
    IN  <<SetMinInt(vals), SetMaxInt(vals)>>

\* C11: after a successful add_overlay the alpha column of the slot is 1
\* exactly at the target vertices and 0 at every other vertex, and its
\* coordinate column is 0 outside the target vertices, also when the slot held
\* another vertex subset before.
C11_AlphaColumnIsTarget ==
    AddedOk =>
        \A i \in Verts :
            /\ bv.alphas[WrittenSlot + 1][i] =
                    (IF i \in last.args.vertices THEN One ELSE Zero)
            /\ i \notin last.args.vertices => bv.xrange[WrittenSlot + 1][i] = Zero

\* C12: every slot below the overlay count has a recorded range at its own
\* index, the range of the slot just written is (min, max) of the values just
\* added, and update_colormap (slot omitted or below the overlay count) and
\* minmax read it without error.
C12_RangeRecorded ==
    /\ \A k \in 0..(bv.n_overlay - 1) : k + 1 <= Len(bv.data_lim)
    /\ AddedOk => /\ WrittenSlot + 1 <= Len(bv.data_lim)
                  /\ bv.data_lim[WrittenSlot + 1] = LastLim
    /\ bv.n_overlay >= 1 => Minmax(bv).status = "ok"
    /\ (last.op = "update_colormap" /\ last.args.to_overlay < bv.n_overlay)
          => last.status = "ok"

\* A step that is an update_colormap call, and the slot it addresses.
UpdateStep == ncalls' = ncalls + 1 /\ last'.op = "update_colormap"
AddressedSlot ==
    IF last'.args.to_overlay = None THEN bv.n_overlay - 1 ELSE last'.args.to_overlay

\* C13: update_colormap changes only the LUT row of the addressed slot (the
\* last overlay when the slot is omitted): the coordinate table, the alpha
\* table, the recorded ranges, the overlay count, the background classes and
\* the other LUT rows are unchanged; with no overlay added nothing changes.
C13_UpdateColormapFrame ==
    [][UpdateStep =>
         /\ bv'.xrange = bv.xrange
         /\ bv'.alphas = bv.alphas
         /\ bv'.data_lim = bv.data_lim
         /\ bv'.n_overlay = bv.n_overlay
         /\ bv'.bgd_data = bv.bgd_data
         /\ Len(bv'.text2d_data) = Len(bv.text2d_data)
         /\ \A j \in 1..Len(bv.text2d_data) :
               j # AddressedSlot + 1 => bv'.text2d_data[j] = bv.text2d_data[j]
         /\ bv.n_overlay = 0 => bv' = bv]_vars

C13_Witness ==
    /\ last.op = "update_colormap" /\ last.status = "ok"
    /\ last.args.to_overlay = 0 /\ last.args.cmap = "plasma"
    /\ bv.n_overlay = 2 /\ Len(bv.data_lim) = 2
    /\ bv.text2d_data[1].cmap = "plasma"
    /\ bv.text2d_data[2].cmap = "viridis"

\* A slot holds a layer once a returned add_overlay call has written it: its
\* alpha column is then 1 at some vertex, and no call clears it.
Held(j) == \E i \in Verts : bv.alphas[j + 1][i] = One

\* C14: the slots holding a layer are exactly 0 .. _n_overlay - 1.
C14_SlotsDense ==
    \A j \in 0..(SlotCount - 1) : Held(j) <=> j < bv.n_overlay

\* A step that is an add_overlay call; the range recorded for slot j.
AddStep == ncalls' = ncalls + 1 /\ last'.op = "add_overlay"
RangeAt(b, j) == IF j + 1 <= Len(b.data_lim) THEN <<b.data_lim[j + 1]>> ELSE <<>>

\* C15: add_overlay on slot k leaves the coordinate column, the alpha column,
\* the LUT row and the recorded range of every other slot as they were.
C15_OtherSlotsKept ==
    [][AddStep =>
         \A j \in 0..(SlotCount + 1) :
            j # TargetSlot =>
               /\ RangeAt(bv', j) = RangeAt(bv, j)
               /\ j < SlotCount =>
                     /\ bv'.xrange[j + 1] = bv.xrange[j + 1]
                     /\ bv'.alphas[j + 1] = bv.alphas[j + 1]
                     /\ bv'.text2d_data[j + 1] = bv.text2d_data[j + 1]]_vars

\* C16: the number of overlay slots (table columns, LUT rows) and the overlay
\* count never exceed 4.
C16_AtMostFourOverlays ==
    /\ SlotCount <= 4
    /\ Len(bv.alphas) <= 4
    /\ Len(bv.text2d_data) <= 4
    /\ bv.n_overlay <= 4

\* The slots covering vertex v, the colour of the LUT of slot j at the
\* coordinate of v, and the alpha-weighted average over the covering slots
\* mixed with the background.
Covering(v) == {j \in 0..(SlotCount - 1) : bv.alphas[j + 1][v] = One}
LutColor(j, v) == [row |-> bv.text2d_data[j + 1], at |-> bv.xrange[j + 1][v]]
Blend(v) ==
    LET own == [j \in Covering(v) |-> LutColor(j, v)]
    IN  IF Covering(v) = {}
        THEN [bg |-> BgColor(bv.bgd_data[v]), over |-> <<>>, div |-> 1]
        ELSE [bg |-> "none", over |-> ColorBag(Covering(v), own),
              div |-> Cardinality(Covering(v))]

\* C17: a vertex covered by no slot gets its background colour, a vertex
\* covered by one slot gets the LUT colour of that slot at its coordinate, and
\* a vertex covered by several slots the average of their LUT colours.
C17_Compositing == \A v \in Verts : VertColor(bv, v) = Blend(v)

\* The background class of vertex i; the priority of a class is its row in
\* the background texture (white, mask, sulcus).
BgdClass(b, i) == BgColor(b.bgd_data[i])
Priority(class) == CHOOSE r \in 1..Len(BgdRows) : BgdRows[r] = class
BgdValid(b) == \A i \in Verts : b.bgd_data[i] \in 0..10 /\ BgdClass(b, i) \in {"white", "mask", "sulcus"}

Selected(value) == HemisphereIndex(vis.faces, vis.lr_index, value)

\* C18: the faces selected by 'left' and by 'right' are disjoint and their
\* union is the faces selected by 'both', the index buffer holds the faces of
\* the current hemisphere, and an assignment of any other value is rejected,
\* leaving the hemisphere and the index buffer as they were.
C18_HemisphereFilter ==
    /\ [](/\ Selected("left") \cap Selected("right") = {}
          /\ Selected("left") \cup Selected("right") = Selected("both")
          /\ Selected("both") = DOMAIN vis.faces
          /\ vis.index_buffer = Selected(vis.hemisphere))
    /\ [][(vlast'.op = "hemisphere" /\ vlast'.value \notin {"left", "both", "right"})
            => /\ vlast'.status = "AssertionError"
               /\ vis'.hemisphere = vis.hemisphere
               /\ vis'.index_buffer = vis.index_buffer]_vars

C18_Witness ==
    /\ vlast.op = "hemisphere" /\ vlast.value = "top"
    /\ vlast.status = "AssertionError"
    /\ vis.hemisphere = "right"
    /\ vis.index_buffer # {} /\ vis.index_buffer # DOMAIN vis.faces
    /\ \E f \in vis.index_buffer : \E k \in 1..3 : vis.lr_index[vis.faces[f][k]]

\* C19: in every state, from construction on and through the assignments of
\* translucent and alpha, translucent implies depth_test off and not
\* translucent implies depth_test on.
C19_TranslucentNoDepthTest == vis.translucent <=> ~vis.depth_test

\* C21: add_overlay with a slot more than one past the allocated slots raises
\* an error and leaves the coordinate table, the alpha table, the LUT, the
\* recorded ranges and the overlay count as they were before the call.
C21_NonSequentialSlotRejected ==
    [][(AddStep /\ TargetSlot > SlotCount) =>
         /\ last'.status # "ok"
         /\ bv'.xrange = bv.xrange
         /\ bv'.alphas = bv.alphas
         /\ bv'.text2d_data = bv.text2d_data
         /\ bv'.data_lim = bv.data_lim
         /\ bv'.n_overlay = bv.n_overlay]_vars

\* C22: after construction and any _reset_mask calls, bool(sources) is true
\* iff some source is masked, that is iff len(sources) is smaller than the
\* number of sources; after _reset_mask(False), len(sources) is the number of
\* sources and bool(sources) is false.
C22_MaskQueriesAgree ==
    /\ SourcesBool(smask) <=> (\E s \in SrcIdx : mask[s])
    /\ SourcesBool(smask) <=> SourcesLen(mask) < Cardinality(SrcIdx)
    /\ mask = ResetMask(mask, FALSE) =>
          (SourcesLen(mask) = Cardinality(SrcIdx) /\ ~SourcesBool(smask))

=============================================================================
